---------------------------- MODULE Spec2Model ----------------------------
(***************************************************************************)
(* CIDR-Substract: the CIDR arithmetic of src/cidr.ts (ipToInt, intToIp,   *)
(* parseCIDR, rangesOverlap, rangeContains, rangeToCIDRs, aggregateCIDRs,  *)
(* subtractCIDR, isValidCIDR) and the POST /api/subtract handler of        *)
(* src/index.ts.                                                           *)
(*                                                                         *)
(* JavaScript numbers are doubles; every value the code computes is an     *)
(* integer between -2^31 and 2^32.  TLC's integers stop at 2^31 - 1, so a  *)
(* JavaScript number n is held as the pair <<hi, lo>> with                 *)
(* n = hi * 2^16 + lo and 0 <= lo < 2^16 (hi is negative for n < 0).       *)
(* Small quantities (octets, prefix lengths, shift counts, the iteration   *)
(* counter) are plain integers.                                            *)
(***************************************************************************)
EXTENDS Integers, Sequences, FiniteSets, TLC

VARIABLES
    pc,        \* "idle" before the one invocation, "done" after it
    entry,     \* the operation invoked, with its arguments
    ret,       \* what the invoked function of src/cidr.ts returned
    rtc,       \* the locals of rangeToCIDRs as its loop was left
    response   \* the HTTP response of fetch

vars == <<pc, entry, ret, rtc, response>>

---------------------------------------------------------------------------
(* Numbers as <<hi, lo>> pairs.                                            *)

W16 == 2^16

Num(n) == <<0, n>>

Norm(h, l) == <<h + (l \div W16), l % W16>>

Plus(a, b) == Norm(a[1] + b[1], a[2] + b[2])

Minus(a, b) == Norm(a[1] - b[1], a[2] - b[2])

Less(a, b) == a[1] < b[1] \/ (a[1] = b[1] /\ a[2] < b[2])

LessEq(a, b) == a = b \/ Less(a, b)

MaxNum(a, b) == IF Less(a, b) THEN b ELSE a

(* ToUint32 and ToInt32 of ECMAScript: the value modulo 2^32, read as an   *)
(* unsigned or as a two's complement signed 32-bit integer.                *)
ToUint32(a) == <<a[1] % W16, a[2]>>

ToInt32(a) ==
    LET h == a[1] % W16
    IN  <<IF h >= 2^15 THEN h - W16 ELSE h, a[2]>>

RECURSIVE And16(_, _, _)
And16(x, y, k) ==
    IF k = 0 THEN 0
    ELSE (IF x % 2 = 1 /\ y % 2 = 1 THEN 1 ELSE 0)
         + 2 * And16(x \div 2, y \div 2, k - 1)

RECURSIVE Or16(_, _, _)
Or16(x, y, k) ==
    IF k = 0 THEN 0
    ELSE (IF x % 2 = 1 \/ y % 2 = 1 THEN 1 ELSE 0)
         + 2 * Or16(x \div 2, y \div 2, k - 1)

(* a & b, a | b, ~a: operands through ToInt32, an Int32 result.            *)
BitAnd(a, b) ==
    LET x == ToUint32(a)
        y == ToUint32(b)
    IN  ToInt32(<<And16(x[1], y[1], 16), And16(x[2], y[2], 16)>>)

BitOr(a, b) ==
    LET x == ToUint32(a)
        y == ToUint32(b)
    IN  ToInt32(<<Or16(x[1], y[1], 16), Or16(x[2], y[2], 16)>>)

BitNot(a) ==
    LET x == ToUint32(a)
    IN  ToInt32(<<W16 - 1 - x[1], W16 - 1 - x[2]>>)

(* a << n: the shift count is n modulo 32, the result an Int32.            *)
Shl(a, n) ==
    LET x == ToUint32(a)
        k == n % 32
    IN  IF k >= 16
        THEN ToInt32(<<(x[2] * 2^(k - 16)) % W16, 0>>)
        ELSE ToInt32(<<(((x[1] * 2^k) % W16) + ((x[2] * 2^k) \div W16)) % W16,
                       (x[2] * 2^k) % W16>>)

(* a >>> n: the shift count is n modulo 32, the result a Uint32.           *)
Ushr(a, n) ==
    LET x == ToUint32(a)
        k == n % 32
    IN  IF k >= 16
        THEN <<0, x[1] \div 2^(k - 16)>>
        ELSE <<x[1] \div 2^k,
               (x[2] \div 2^k) + (x[1] % 2^k) * 2^(16 - k)>>

---------------------------------------------------------------------------
(* Texts.  An address text is the sequence of what Number() makes of its   *)
(* '.'-separated parts; a CIDR text is its '/'-separated parts (an address *)
(* text, then what parseInt makes of the prefix part) and whether          *)
(* whitespace surrounds it.                                                *)

NaN == -1000000

IsNaN(p) == p = NaN

Text(pad, parts) == [pad |-> pad, parts |-> parts]

trim(text) == [text EXCEPT !.pad = FALSE]

(* ipToInt: the four octets packed with << and |, an Int32.                *)
IpInvalid(parts) ==
    \/ Len(parts) # 4
    \/ \E i \in 1..Len(parts) :
          \/ (~IsNaN(parts[i]) /\ (parts[i] < 0 \/ parts[i] > 255))
          \/ IsNaN(parts[i])

ipToInt(parts) ==
    BitOr(BitOr(BitOr(Shl(Num(parts[1]), 24), Shl(Num(parts[2]), 16)),
                Shl(Num(parts[3]), 8)),
          Num(parts[4]))

(* intToIp: the four bytes of num, most significant first, joined by '.'.  *)
intToIp(num) ==
    << BitAnd(Ushr(num, 24), Num(255))[2],
       BitAnd(Ushr(num, 16), Num(255))[2],
       BitAnd(Ushr(num, 8), Num(255))[2],
       BitAnd(num, Num(255))[2] >>


---------------------------------------------------------------------------
(* parseCIDR.  A throw is the err field; a range is produced only when err *)
(* is "none".                                                              *)

Failure(err) ==
    [err |-> err, ip |-> <<>>, prefix |-> 0, startIP |-> Num(0), endIP |-> Num(0)]

AllOnes == <<W16 - 1, W16 - 1>>

(* Line 54: the network mask of a prefix length, a Uint32.                 *)
mask_noZeroCase(prefix) == ToUint32(Shl(AllOnes, 32 - prefix))

mask(prefix) ==
    IF prefix = 0 THEN Num(0) ELSE ToUint32(Shl(AllOnes, 32 - prefix))

(* Line 55: the address with its host bits cleared, a Uint32.              *)
networkStart_keepsHostBits(ipInt, m) == ToUint32(ipInt)

networkStart(ipInt, m) == ToUint32(BitAnd(ipInt, m))

(* parseCIDR with the address checked before the prefix length.            *)
parseCIDR_addressFirst(cidr) ==
    LET trimmed == trim(cidr)
        parts   == trimmed.parts
    IN  IF Len(parts) # 2 THEN Failure("Invalid CIDR notation")
        ELSE
        LET ip     == parts[1]
            prefix == parts[2]
        IN  IF IpInvalid(ip) THEN Failure("Invalid IPv4 address")
            ELSE IF IsNaN(prefix) \/ prefix < 0 \/ prefix > 32
            THEN Failure("Invalid prefix length")
            ELSE
            LET ipInt   == ipToInt(ip)
                startIP == networkStart(ipInt, mask(prefix))
                endIP   == ToUint32(BitOr(startIP, ToUint32(BitNot(mask(prefix)))))
            IN  [err |-> "none", ip |-> ip, prefix |-> prefix,
                 startIP |-> startIP, endIP |-> endIP]

parseCIDR(cidr) ==
    LET trimmed == trim(cidr)
        parts   == trimmed.parts
    IN  IF Len(parts) # 2 THEN Failure("Invalid CIDR notation")
        ELSE
        LET ip     == parts[1]
            prefix == parts[2]
        IN  IF IsNaN(prefix) \/ prefix < 0 \/ prefix > 32
            THEN Failure("Invalid prefix length")
            ELSE IF IpInvalid(ip) THEN Failure("Invalid IPv4 address")
            ELSE
            LET ipInt   == ipToInt(ip)
                startIP == networkStart(ipInt, mask(prefix))
                endIP   == ToUint32(BitOr(startIP, ToUint32(BitNot(mask(prefix)))))
            IN  [err |-> "none", ip |-> ip, prefix |-> prefix,
                 startIP |-> startIP, endIP |-> endIP]

isValidCIDR(cidr) == parseCIDR(cidr).err = "none"

rangesOverlap(range1, range2) ==
    ~(Less(range1.endIP, range2.startIP) \/ Less(range2.endIP, range1.startIP))

rangeContains(range1, range2) ==
    LessEq(range1.startIP, range2.startIP) /\ LessEq(range2.endIP, range1.endIP)

---------------------------------------------------------------------------
(* rangeToCIDRs.                                                           *)

RECURSIVE countTrailingZerosLoop(_, _)
countTrailingZerosLoop(n, count) ==
    IF BitAnd(n, Num(1)) = Num(0)
    THEN countTrailingZerosLoop(Ushr(n, 1), count + 1)
    ELSE count

countTrailingZeros(n) ==
    IF n = Num(0) THEN 32 ELSE countTrailingZerosLoop(n, 0)

MAX_ITERATIONS == 1000

Min2(a, b) == IF a <= b THEN a ELSE b

Max2(a, b) == IF a >= b THEN a ELSE b

(* The for loop of lines 121-126: the first i in 0..32 with                *)
(* (1 << i) > remainingIPs sets max(0, i - 1); with none, 0 stays.         *)
maxSizeFromRange(remainingIPs) ==
    LET hits == {i \in 0..32 : Less(remainingIPs, Shl(Num(1), i))}
    IN  IF hits = {} THEN 0
        ELSE Max2(0, (CHOOSE i \in hits : \A j \in hits : i <= j) - 1)

blockSizeAt(startIP, endIP) ==
    LET maxSizeFromAlignment == countTrailingZeros(startIP)
        remainingIPs == ToUint32(Plus(Minus(endIP, startIP), Num(1)))
    IN  Min2(maxSizeFromAlignment, maxSizeFromRange(remainingIPs))

(* One pass of the while loop of lines 102-145 over the locals: the test,  *)
(* the iteration ceiling, the push, the two breaks and the advance.  exit  *)
(* names the way the loop was left ("" while it runs).                     *)
rangeToCIDRsStep(l) ==
    IF ~LessEq(l.startIP, l.endIP)
    THEN [l EXCEPT !.exit = "condition"]
    ELSE IF l.iteration > MAX_ITERATIONS
    THEN [l EXCEPT !.iteration = @ + 1, !.exit = "max iterations"]
    ELSE
    LET blockSize  == blockSizeAt(l.startIP, l.endIP)
        prefix     == 32 - blockSize
        pushed     == Append(l.cidrs, Text(FALSE, <<intToIp(l.startIP), prefix>>))
        ipsInBlock == ToUint32(Shl(Num(1), blockSize))
        nextIP     == ToUint32(Plus(l.startIP, ipsInBlock))
    IN  IF l.startIP = l.endIP \/ l.startIP = AllOnes
        THEN [l EXCEPT !.cidrs = pushed, !.iteration = @ + 1, !.exit = "end reached"]
        ELSE IF LessEq(nextIP, l.startIP)
        THEN [l EXCEPT !.cidrs = pushed, !.iteration = @ + 1, !.exit = "overflow"]
        ELSE [l EXCEPT !.cidrs = pushed, !.iteration = @ + 1, !.startIP = nextIP]

(* The loop run to its exit.  The passes are taken Chunk at a time, Chunk  *)
(* times over, which only keeps the evaluation shallow: the ceiling of     *)
(* line 104 leaves the loop within MAX_ITERATIONS + 2 passes, fewer than   *)
(* Chunk * Chunk.                                                          *)
Chunk == 40

RECURSIVE rangeToCIDRsPasses(_, _)
rangeToCIDRsPasses(l, n) ==
    IF n = 0 \/ l.exit # "" THEN l
    ELSE rangeToCIDRsPasses(rangeToCIDRsStep(l), n - 1)

RECURSIVE rangeToCIDRsRounds(_, _)
rangeToCIDRsRounds(l, n) ==
    IF n = 0 \/ l.exit # "" THEN l
    ELSE rangeToCIDRsRounds(rangeToCIDRsPasses(l, Chunk), n - 1)

rangeToCIDRsLoop(startIP, endIP) ==
    rangeToCIDRsRounds([startIP |-> startIP, endIP |-> endIP, cidrs |-> <<>>,
                        iteration |-> 0, exit |-> ""], Chunk)

rangeToCIDRs(startIP, endIP) == rangeToCIDRsLoop(startIP, endIP).cidrs

---------------------------------------------------------------------------
(* aggregateCIDRs.  Its callers pass texts that parse (rangeToCIDRs'       *)
(* output, or valid blocks), so the throw of parseCIDR at line 159 is not  *)
(* a path here.                                                            *)

Interval(startIP, endIP) == [startIP |-> startIP, endIP |-> endIP]

IsSortedByStartIP(ranges) ==
    \A k \in 1..(Len(ranges) - 1) : LessEq(ranges[k].startIP, ranges[k + 1].startIP)

(* ranges.sort((a, b) => a.startIP - b.startIP): the stable sort, each     *)
(* element at the rank its key and its index give it.                      *)
sortByStartIP(ranges) ==
    IF IsSortedByStartIP(ranges) THEN ranges
    ELSE
    LET n == Len(ranges)
        rank(k) == 1 + Cardinality({j \in 1..n :
                        \/ Less(ranges[j].startIP, ranges[k].startIP)
                        \/ (ranges[j].startIP = ranges[k].startIP /\ j < k)})
    IN  [r \in 1..n |-> ranges[CHOOSE k \in 1..n : rank(k) = r]]

(* One pass of the for loop of lines 168-181 over its locals (i counts     *)
(* the ranges taken so far: ranges[i + 1] here is the code's ranges[i]).   *)
mergeStep(a) ==
    LET next == a.ranges[a.i + 1]
    IN  IF LessEq(next.startIP, Plus(a.current.endIP, Num(1)))
        THEN [a EXCEPT !.current.endIP = MaxNum(a.current.endIP, next.endIP),
                       !.i = @ + 1]
        ELSE [a EXCEPT !.merged = Append(@, a.current),
                       !.current = Interval(next.startIP, next.endIP),
                       !.i = @ + 1]

RECURSIVE mergePasses(_, _)
mergePasses(a, n) ==
    IF n = 0 \/ ~(a.i < Len(a.ranges)) THEN a
    ELSE mergePasses(mergeStep(a), n - 1)

RECURSIVE mergeRounds(_, _)
mergeRounds(a, n) ==
    IF n = 0 \/ ~(a.i < Len(a.ranges)) THEN a
    ELSE mergeRounds(mergePasses(a, Chunk), n - 1)

(* Lines 165-184: the merge of the sorted ranges, the last running         *)
(* interval pushed after the loop.                                         *)
mergeRanges(ranges) ==
    LET a == mergeRounds([ranges |-> ranges, merged |-> <<>>, i |-> 1,
                          current |-> Interval(ranges[1].startIP, ranges[1].endIP)],
                         Chunk)
    IN  Append(a.merged, a.current)

(* Lines 187-190: the blocks of each merged interval, in order.            *)
RECURSIVE convertMerged(_, _, _)
convertMerged(merged, m, result) ==
    IF m > Len(merged) THEN result
    ELSE convertMerged(merged, m + 1,
                       result \o rangeToCIDRs(merged[m].startIP, merged[m].endIP))

aggregateCIDRs(cidrs) ==
    IF Len(cidrs) = 0 THEN <<>>
    ELSE IF Len(cidrs) = 1 THEN cidrs
    ELSE LET ranges == sortByStartIP([k \in 1..Len(cidrs) |-> parseCIDR(cidrs[k])])
         IN  convertMerged(mergeRanges(ranges), 1, <<>>)

---------------------------------------------------------------------------
(* subtractCIDR: what it returns (value), or the message of the Error it   *)
(* throws (threw, "" when it returns).                                     *)

largerRange_flipped(range1, range2) ==
    IF LessEq(Minus(range1.endIP, range1.startIP), Minus(range2.endIP, range2.startIP))
    THEN range1 ELSE range2

largerRange(range1, range2) ==
    IF LessEq(Minus(range2.endIP, range2.startIP), Minus(range1.endIP, range1.startIP))
    THEN range1 ELSE range2

smallerRange(range1, range2) ==
    IF largerRange(range1, range2) = range1 THEN range2 ELSE range1

(* Line 205: what is returned when the ranges do not overlap.              *)
noOverlapReturn_trimmed(cidr1, cidr2) == <<trim(cidr1)>>

noOverlapReturn(cidr1, cidr2) == <<cidr1>>

Returns(value) == [threw |-> "", value |-> value]

Throws(message) == [threw |-> message, value |-> <<>>]

PartialOverlap == "Ranges overlap but neither fully contains the other"

(* Lines 219-232: the blocks before and after the smaller range,           *)
(* aggregated.                                                             *)
remainder(larger, smaller) ==
    LET beforeCIDRs == IF Less(larger.startIP, smaller.startIP)
                       THEN rangeToCIDRs(larger.startIP, Minus(smaller.startIP, Num(1)))
                       ELSE <<>>
        afterCIDRs  == IF Less(smaller.endIP, larger.endIP)
                       THEN rangeToCIDRs(Plus(smaller.endIP, Num(1)), larger.endIP)
                       ELSE <<>>
    IN  aggregateCIDRs(beforeCIDRs \o afterCIDRs)

subtractCIDR(cidr1, cidr2) ==
    LET range1 == parseCIDR(cidr1)
        range2 == parseCIDR(cidr2)
    IN  IF range1.err # "none" THEN Throws(range1.err)
        ELSE IF range2.err # "none" THEN Throws(range2.err)
        ELSE IF ~rangesOverlap(range1, range2)
        THEN Returns(noOverlapReturn(cidr1, cidr2))
        ELSE IF ~rangeContains(largerRange(range1, range2), smallerRange(range1, range2))
        THEN Throws(PartialOverlap)
        ELSE Returns(remainder(largerRange(range1, range2), smallerRange(range1, range2)))

---------------------------------------------------------------------------
(* fetch of src/index.ts.  A request is its route and, for POST            *)
(* /api/subtract, whether its body parses as JSON and the two fields.      *)

Missing == Text(FALSE, <<>>)

Request(route, json, cidr1, cidr2) ==
    [route |-> route, json |-> json, cidr1 |-> cidr1, cidr2 |-> cidr2]

Response(status, success, result, error, message) ==
    [status |-> status, success |-> success, result |-> result,
     error |-> error, message |-> message]

NoResponse == Response(0, FALSE, <<>>, "", "")

Entry(fn, args, round) == [fn |-> fn, args |-> args, round |-> round]

NoEntry == Entry("", <<>>, 0)

NoRtc == [startIP |-> Num(0), endIP |-> Num(0), cidrs |-> <<>>, iteration |-> 0, exit |-> ""]

T(a, b, c, d, p) == Text(FALSE, << <<a, b, c, d>>, p >>)

Padded(text) == [text EXCEPT !.pad = TRUE]

(* The texts requests carry: blocks of every size class, a block given     *)
(* with host bits, one given with surrounding whitespace, and texts that   *)
(* fail each check of parseCIDR.                                           *)
ValidTexts ==
    { T(0, 0, 0, 0, 0), T(0, 0, 0, 0, 1), T(64, 0, 0, 0, 2), T(10, 0, 0, 0, 8),
      T(192, 168, 0, 0, 16), T(192, 168, 1, 0, 24), T(192, 168, 1, 5, 24),
      Padded(T(192, 168, 1, 0, 24)), T(10, 0, 0, 0, 24), T(10, 0, 0, 128, 25),
      T(255, 255, 255, 0, 24), T(255, 255, 255, 0, 25), T(255, 255, 255, 255, 32) }

InvalidTexts ==
    { T(192, 168, 0, 0, 33), T(256, 1, 1, 1, 8), T(1, 2, 3, NaN, 24),
      Text(FALSE, << <<1, 2, 3>>, 24 >>), Text(FALSE, << <<1, 2, 3, 4>> >>),
      T(1, 2, 3, 4, NaN), T(256, 1, 1, 1, 33), T(1, 2, 3, NaN, NaN),
      Text(FALSE, << <<1, 2, 3>>, -1 >>),
      Text(FALSE, << <<1, 2, 3, 4>>, 24, 24 >>) }

Texts == ValidTexts \cup InvalidTexts \cup {Missing}

Covers == "The smaller range completely covers the larger range, leaving no remaining ranges."

Complete == "Subtraction complete. N remaining range(s)."

(* Lines 59-69 and 71-76: the answer to a subtraction that returned, and   *)
(* to one that threw.                                                      *)
subtractResponse(outcome) ==
    IF outcome.threw = ""
    THEN Response(200, TRUE, outcome.value, "",
                  IF Len(outcome.value) = 0 THEN Covers ELSE Complete)
    ELSE Response(500, FALSE, <<>>, outcome.threw, "")

(* Lines 29-78: POST /api/subtract.                                        *)
fetch_subtract ==
    /\ pc = "idle"
    /\ \E json \in BOOLEAN, cidr1 \in Texts, cidr2 \in Texts :
          /\ json \/ (cidr1 = Missing /\ cidr2 = Missing)
          /\ entry' = Entry("fetch", Request("POST /api/subtract", json, cidr1, cidr2), 1)
          /\ response' =
                IF ~json
                THEN Response(500, FALSE, <<>>, "request.json() threw", "")
                ELSE IF cidr1 = Missing \/ cidr2 = Missing
                THEN Response(400, FALSE, <<>>, "Both cidr1 and cidr2 are required", "")
                ELSE IF ~isValidCIDR(cidr1)
                THEN Response(400, FALSE, <<>>, "Invalid CIDR notation for first range", "")
                ELSE IF ~isValidCIDR(cidr2)
                THEN Response(400, FALSE, <<>>, "Invalid CIDR notation for second range", "")
                ELSE subtractResponse(subtractCIDR(cidr1, cidr2))
    /\ pc' = "done"
    /\ UNCHANGED <<ret, rtc>>

(* Lines 81-86 and 89: the health probe and the static assets.             *)
fetch_health ==
    /\ pc = "idle"
    /\ entry' = Entry("fetch", Request("/api/health", FALSE, Missing, Missing), 1)
    /\ response' = Response(200, TRUE, <<>>, "", "healthy")
    /\ pc' = "done"
    /\ UNCHANGED <<ret, rtc>>

fetch_assets ==
    /\ pc = "idle"
    /\ entry' = Entry("fetch", Request("asset", FALSE, Missing, Missing), 1)
    /\ response' = Response(200, TRUE, <<>>, "", "env.ASSETS.fetch(request)")
    /\ pc' = "done"
    /\ UNCHANGED <<ret, rtc>>

---------------------------------------------------------------------------
(* The worker: one request, answered.                                      *)

Init ==
    /\ pc = "idle"
    /\ entry = NoEntry
    /\ ret = <<>>
    /\ rtc = NoRtc
    /\ response = NoResponse

Next ==
    \/ fetch_subtract
    \/ fetch_health
    \/ fetch_assets

Spec == Init /\ [][Next]_vars

---------------------------------------------------------------------------
(* The functions of src/cidr.ts called on their own.                       *)

(* Addresses as numbers.                                                   *)
Addr(a, b, c, d) == <<a * 256 + b, c * 256 + d>>

(* The interval ends rangeToCIDRs is called with: the ends and the middle  *)
(* of the address space, the neighbours of 2^30 and 2^31, ordinary         *)
(* addresses.                                                              *)
Points ==
    { Addr(0, 0, 0, 0), Addr(0, 0, 0, 1), Addr(10, 0, 0, 0), Addr(63, 255, 255, 255),
      Addr(64, 0, 0, 0), Addr(64, 0, 0, 5), Addr(127, 255, 255, 255),
      Addr(128, 0, 0, 0), Addr(192, 168, 0, 0), Addr(192, 168, 0, 255),
      Addr(192, 168, 1, 0), Addr(192, 168, 255, 255), Addr(255, 255, 255, 0),
      Addr(255, 255, 255, 254), Addr(255, 255, 255, 255) }

call_rangeToCIDRs ==
    /\ pc = "idle"
    /\ \E startIP \in Points, endIP \in Points :
          /\ LessEq(startIP, endIP)
          /\ entry' = Entry("rangeToCIDRs", <<startIP, endIP>>, 1)
          /\ rtc' = rangeToCIDRsLoop(startIP, endIP)
          /\ ret' = rtc'.cidrs
    /\ pc' = "done"
    /\ UNCHANGED response

NextRange == call_rangeToCIDRs

SpecRange == Init /\ [][NextRange]_vars

(* The blocks aggregateCIDRs is called with: halves and their whole, a     *)
(* neighbour, a block given with host bits, and blocks that merge into     *)
(* 2^30 addresses, 2^31 addresses and the whole space.                     *)
Blocks ==
    { T(10, 0, 0, 0, 25), T(10, 0, 0, 128, 25), T(10, 0, 0, 0, 24),
      T(10, 0, 1, 0, 24), T(10, 0, 0, 5, 24), T(0, 0, 0, 0, 3),
      T(32, 0, 0, 0, 3), T(0, 0, 0, 0, 1), T(128, 0, 0, 0, 1) }

MaxListLen == 2

MaxRounds == 2

Lists == UNION {[1..n -> Blocks] : n \in 0..MaxListLen}

call_aggregateCIDRs ==
    /\ pc = "idle"
    /\ \E cidrs \in Lists :
          /\ entry' = Entry("aggregateCIDRs", cidrs, 1)
          /\ ret' = aggregateCIDRs(cidrs)
    /\ pc' = "done"
    /\ UNCHANGED <<rtc, response>>

(* aggregateCIDRs called again on what it returned.                        *)
call_aggregateCIDRs_again ==
    /\ pc = "done"
    /\ entry.fn = "aggregateCIDRs"
    /\ entry.round < MaxRounds
    /\ entry' = Entry("aggregateCIDRs", ret, entry.round + 1)
    /\ ret' = aggregateCIDRs(ret)
    /\ UNCHANGED <<pc, rtc, response>>

NextAggregate ==
    \/ call_aggregateCIDRs
    \/ call_aggregateCIDRs_again

SpecAggregate == Init /\ [][NextAggregate]_vars

(* The texts parseCIDR is called with: every prefix length on addresses    *)
(* with the top bit clear and set, with and without host bits, bare and    *)
(* surrounded by whitespace, and the texts that fail.                      *)
ParseAddresses ==
    { <<0, 0, 0, 0>>, <<10, 0, 0, 5>>, <<127, 255, 255, 255>>, <<128, 0, 0, 1>>,
      <<192, 168, 1, 5>>, <<200, 1, 2, 3>>, <<255, 255, 255, 255>> }

ParseTexts ==
    {Text(pad, <<ip, prefix>>) : pad \in BOOLEAN, ip \in ParseAddresses, prefix \in 0..32}
    \cup InvalidTexts

call_parseCIDR ==
    /\ pc = "idle"
    /\ \E cidr \in ParseTexts :
          /\ entry' = Entry("parseCIDR", cidr, 1)
          /\ ret' = parseCIDR(cidr)
    /\ pc' = "done"
    /\ UNCHANGED <<rtc, response>>

call_isValidCIDR ==
    /\ pc = "idle"
    /\ \E cidr \in ParseTexts :
          /\ entry' = Entry("isValidCIDR", cidr, 1)
          /\ ret' = isValidCIDR(cidr)
    /\ pc' = "done"
    /\ UNCHANGED <<rtc, response>>

NextParse ==
    \/ call_parseCIDR
    \/ call_isValidCIDR

SpecParse == Init /\ [][NextParse]_vars

(* The address texts ipToInt is called with: four octets from both halves  *)
(* of the range, and texts that fail its check (an octet out of range or   *)
(* not a number, three parts, five parts).                                 *)
CodecOctets == {0, 1, 10, 127, 128, 192, 255}

CodecTexts ==
    [1..4 -> CodecOctets]
    \cup { <<256, 1, 1, 1>>, <<1, 2, 3, NaN>>, <<1, 2, 3, -1>>, <<1, 2, 3>>,
           <<1, 2, 3, 4, 5>> }

(* Lines 15-21: ipToInt(ip), which throws or returns.                      *)
call_ipToInt ==
    /\ pc = "idle"
    /\ \E ip \in CodecTexts :
          /\ entry' = Entry("ipToInt", ip, 1)
          /\ ret' = IF IpInvalid(ip) THEN Throws("Invalid IPv4 address")
                    ELSE Returns(ipToInt(ip))
    /\ pc' = "done"
    /\ UNCHANGED <<rtc, response>>

(* intToIp(ipToInt(ip)): lines 26-33 applied to what lines 15-21 return.   *)
call_intToIp_ipToInt ==
    /\ pc = "idle"
    /\ \E ip \in CodecTexts :
          /\ entry' = Entry("intToIp(ipToInt)", ip, 1)
          /\ ret' = IF IpInvalid(ip) THEN Throws("Invalid IPv4 address")
                    ELSE Returns(intToIp(ipToInt(ip)))
    /\ pc' = "done"
    /\ UNCHANGED <<rtc, response>>

NextCodec ==
    \/ call_ipToInt
    \/ call_intToIp_ipToInt

SpecCodec == Init /\ [][NextCodec]_vars

---------------------------------------------------------------------------
(* What the texts mean, by arithmetic on addresses: the address space is   *)
(* 0 .. 2^32 - 1, and a/p names the 2^(32-p) addresses from a rounded down *)
(* to a multiple of 2^(32-p).                                              *)

Pow2(k) == IF k >= 16 THEN <<2^(k - 16), 0>> ELSE <<0, 2^k>>

AddressOf(ip) == Addr(ip[1], ip[2], ip[3], ip[4])

ClearLow(a, k) ==
    IF k >= 16 THEN <<a[1] - (a[1] % 2^(k - 16)), 0>>
    ELSE <<a[1], a[2] - (a[2] % 2^k)>>

BlockOf(text) ==
    LET k == 32 - text.parts[2]
        s == ClearLow(AddressOf(text.parts[1]), k)
    IN  Interval(s, Plus(s, Minus(Pow2(k), Num(1))))

RangesOf(blocks) == [k \in 1..Len(blocks) |-> BlockOf(blocks[k])]

IsAddress(p) == LessEq(Num(0), p) /\ LessEq(p, AllOnes)

Overlap(x, y) == ~(Less(x.endIP, y.startIP) \/ Less(y.endIP, x.startIP))

InUnion(p, ivs) ==
    \E k \in 1..Len(ivs) : LessEq(ivs[k].startIP, p) /\ LessEq(p, ivs[k].endIP)

(* Two unions of intervals are the same set of addresses exactly when they *)
(* agree at every end of an interval and at its two neighbours: between    *)
(* such points membership in neither union changes.                        *)
BoundaryPoints(ivs) ==
    { p \in UNION { { ivs[k].startIP, ivs[k].endIP,
                      Minus(ivs[k].startIP, Num(1)), Plus(ivs[k].endIP, Num(1)) }
                    : k \in 1..Len(ivs) } : IsAddress(p) }

SameAddressSet(x, y) ==
    \A p \in BoundaryPoints(x) \cup BoundaryPoints(y) : InUnion(p, x) <=> InUnion(p, y)

PairwiseDisjoint(ivs) ==
    \A j \in 1..Len(ivs) : \A k \in (j + 1)..Len(ivs) : ~Overlap(ivs[j], ivs[k])

(* The fewest aligned blocks whose union is a union of intervals: the      *)
(* blocks inside the union that no larger aligned block inside it contains,*)
(* counted down the tree of aligned blocks from 0.0.0.0/0.                 *)
Touches(base, k, ivs) ==
    \E j \in 1..Len(ivs) :
       Overlap(ivs[j], Interval(base, Plus(base, Minus(Pow2(k), Num(1)))))

RECURSIVE Full(_, _, _)
Full(base, k, ivs) ==
    \/ \E j \in 1..Len(ivs) :
          /\ LessEq(ivs[j].startIP, base)
          /\ LessEq(Plus(base, Minus(Pow2(k), Num(1))), ivs[j].endIP)
    \/ /\ k > 0
       /\ Full(base, k - 1, ivs)
       /\ Full(Plus(base, Pow2(k - 1)), k - 1, ivs)

RECURSIVE MaximalBlocks(_, _, _)
MaximalBlocks(base, k, ivs) ==
    IF Full(base, k, ivs) THEN 1
    ELSE IF k = 0 THEN 0
    ELSE IF ~Touches(base, k, ivs) THEN 0
    ELSE MaximalBlocks(base, k - 1, ivs)
         + MaximalBlocks(Plus(base, Pow2(k - 1)), k - 1, ivs)

MinBlocks(ivs) == MaximalBlocks(Num(0), 32, ivs)

---------------------------------------------------------------------------
(* Properties.                                                             *)

(* A POST /api/subtract whose two texts are valid CIDR texts A and B.      *)
SubtractRequest ==
    /\ entry.fn = "fetch"
    /\ entry.args.route = "POST /api/subtract"
    /\ entry.args.json
    /\ entry.args.cidr1 \in ValidTexts
    /\ entry.args.cidr2 \in ValidTexts

RangeA == BlockOf(entry.args.cidr1)

RangeB == BlockOf(entry.args.cidr2)

(* C3: when the ranges of A and B do not overlap, subtractCIDR(A, B)       *)
(* returns the one-element list holding the text A exactly as supplied     *)
(* (not trimmed, not normalized), whichever range is larger and whatever   *)
(* B is.                                                                   *)
C3_NoOverlapReturnsFirstText ==
    (pc = "done" /\ SubtractRequest /\ ~Overlap(RangeA, RangeB))
        => /\ response.status = 200
           /\ response.result = <<entry.args.cidr1>>

(* A padded first text, smaller than a second text it does not overlap,    *)
(* has been answered; so has a first text with host bits.                  *)
C3_Witness ==
    /\ pc = "done"
    /\ SubtractRequest
    /\ ~Overlap(RangeA, RangeB)
    /\ entry.args.cidr1.pad
    /\ Less(Minus(RangeA.endIP, RangeA.startIP), Minus(RangeB.endIP, RangeB.startIP))
    /\ response.result = <<entry.args.cidr1>>

(* C4: subtractCIDR(A, B) returns the empty list exactly when the ranges   *)
(* of A and B are the same (also when the texts differ by host bits or     *)
(* whitespace), and that is the only case in which the handler reports     *)
(* that the smaller range completely covers the larger one.                *)
C4_EmptyIffIdentical ==
    pc = "done" =>
        /\ SubtractRequest =>
              ((response.status = 200 /\ response.result = <<>>) <=> RangeA = RangeB)
        /\ (response.message = Covers) <=> (SubtractRequest /\ RangeA = RangeB)

(* Two different texts of one range have been subtracted, leaving nothing. *)
C4_Witness ==
    /\ pc = "done"
    /\ SubtractRequest
    /\ entry.args.cidr1 # trim(entry.args.cidr2)
    /\ entry.args.cidr1.parts[1] # entry.args.cidr2.parts[1]
    /\ RangeA = RangeB
    /\ response.result = <<>>
    /\ response.message = Covers

(* C5: parseCIDR of a/p yields unsigned 32-bit startIP <= endIP, startIP   *)
(* being a with its low 32-p bits cleared and endIP being startIP with     *)
(* them set, so that endIP - startIP + 1 = 2^(32-p); /0 is the whole       *)
(* space, /32 is [a, a], and host bits of a are discarded.                 *)
C5_ParsedRange ==
    (pc = "done" /\ entry.fn = "parseCIDR" /\ entry.args \notin InvalidTexts) =>
        LET a == AddressOf(entry.args.parts[1])
            p == entry.args.parts[2]
        IN  /\ ret.err = "none"
            /\ IsAddress(ret.startIP) /\ IsAddress(ret.endIP)
            /\ LessEq(ret.startIP, ret.endIP)
            /\ ret.startIP = ClearLow(a, 32 - p)
            /\ ret.endIP = Plus(ret.startIP, Minus(Pow2(32 - p), Num(1)))
            /\ Plus(Minus(ret.endIP, ret.startIP), Num(1)) = Pow2(32 - p)
            /\ (p = 0 => ret.startIP = Num(0) /\ ret.endIP = AllOnes)
            /\ (p = 32 => ret.startIP = a /\ ret.endIP = a)

(* An address with its top bit and host bits set has been parsed.          *)
C5_Witness ==
    /\ pc = "done"
    /\ entry.fn = "parseCIDR"
    /\ entry.args \notin InvalidTexts
    /\ AddressOf(entry.args.parts[1])[1] >= 2^15
    /\ ret.err = "none"
    /\ ret.startIP # AddressOf(entry.args.parts[1])
    /\ entry.args.parts[2] \in 1..31

(* C10: for the ranges parseCIDR makes of two valid texts, rangesOverlap   *)
(* holds exactly when one rangeContains the other, and the range chosen as *)
(* larger contains the other when they overlap; so subtractCIDR never      *)
(* throws the partial-overlap Error, nor any other, once both texts pass   *)
(* isValidCIDR, and the handler answers 200.                               *)
C10_NoPartialOverlap ==
    (pc = "done" /\ SubtractRequest) =>
        LET range1 == parseCIDR(entry.args.cidr1)
            range2 == parseCIDR(entry.args.cidr2)
        IN  /\ rangesOverlap(range1, range2)
                  <=> (rangeContains(range1, range2) \/ rangeContains(range2, range1))
            /\ rangesOverlap(range1, range2)
                  => rangeContains(largerRange(range1, range2), smallerRange(range1, range2))
            /\ response.error # PartialOverlap
            /\ response.status = 200

(* A second text that strictly contains the first has been subtracted from.*)
C10_Witness ==
    /\ pc = "done"
    /\ SubtractRequest
    /\ Overlap(RangeA, RangeB)
    /\ Less(Minus(RangeA.endIP, RangeA.startIP), Minus(RangeB.endIP, RangeB.startIP))
    /\ response.status = 200
    /\ Len(response.result) > 0

(* The larger and the smaller of the ranges of A and B, and what is left   *)
(* of the larger without the smaller: the addresses before it and the      *)
(* addresses after it.                                                     *)
Larger ==
    IF LessEq(Minus(RangeB.endIP, RangeB.startIP), Minus(RangeA.endIP, RangeA.startIP))
    THEN RangeA ELSE RangeB

Smaller == IF Larger = RangeA THEN RangeB ELSE RangeA

Gaps ==
    (IF Less(Larger.startIP, Smaller.startIP)
     THEN <<Interval(Larger.startIP, Minus(Smaller.startIP, Num(1)))>> ELSE <<>>)
    \o (IF Less(Smaller.endIP, Larger.endIP)
        THEN <<Interval(Plus(Smaller.endIP, Num(1)), Larger.endIP)>> ELSE <<>>)

(* C1: when the ranges of A and B overlap (every prefix length, /0 and /1  *)
(* as the larger range too), subtractCIDR(A, B) returns blocks that are    *)
(* pairwise disjoint and whose union is exactly the larger range without   *)
(* the smaller: no address missing, none extra.                            *)
C1_ExactDifference ==
    (pc = "done" /\ SubtractRequest /\ Overlap(RangeA, RangeB)) =>
        /\ response.status = 200
        /\ PairwiseDisjoint(RangesOf(response.result))
        /\ SameAddressSet(RangesOf(response.result), Gaps)

(* C2: the list subtractCIDR(A, B) returns for overlapping ranges, and the *)
(* list rangeToCIDRs(s, e) returns for s <= e, has the fewest blocks any   *)
(* collection of aligned blocks with the same union as that list can have. *)
C2_FewestBlocks ==
    /\ (pc = "done" /\ SubtractRequest /\ Overlap(RangeA, RangeB))
          => Len(response.result) = MinBlocks(RangesOf(response.result))
    /\ (pc = "done" /\ entry.fn = "rangeToCIDRs")
          => Len(ret) = MinBlocks(RangesOf(ret))

(* The address of a block text has at least 32 - prefix trailing zero bits.*)
Aligned(text) ==
    AddressOf(text.parts[1]) = ClearLow(AddressOf(text.parts[1]), 32 - text.parts[2])

(* C6: for every 0 <= s <= e <= 0xFFFFFFFF, intervals of 2^30 or more      *)
(* addresses and the whole space included, rangeToCIDRs(s, e) emits blocks *)
(* in ascending order, pairwise disjoint, with union exactly [s, e], each  *)
(* aligned to its size; the whole space is the single block 0.0.0.0/0.     *)
C6_Decomposition ==
    (pc = "done" /\ entry.fn = "rangeToCIDRs") =>
        LET r == RangesOf(ret)
        IN  /\ \A k \in 1..(Len(ret) - 1) : Less(r[k].endIP, r[k + 1].startIP)
            /\ \A k \in 1..Len(ret) : Aligned(ret[k])
            /\ SameAddressSet(r, <<Interval(entry.args[1], entry.args[2])>>)
            /\ (entry.args = <<Num(0), AllOnes>>) => ret = <<T(0, 0, 0, 0, 0)>>

(* C7: for every list X of valid blocks (any order; overlapping, nested,   *)
(* adjacent, duplicate), aggregateCIDRs(X) covers exactly the addresses of *)
(* X, with pairwise disjoint blocks, the fewest that cover that set.       *)
C7_AggregateExactAndFewest ==
    (pc = "done" /\ entry.fn = "aggregateCIDRs" /\ entry.round = 1) =>
        /\ SameAddressSet(RangesOf(ret), RangesOf(entry.args))
        /\ PairwiseDisjoint(RangesOf(ret))
        /\ Len(ret) = MinBlocks(RangesOf(entry.args))

(* C8: aggregateCIDRs(aggregateCIDRs(X)) = aggregateCIDRs(X), element for  *)
(* element, for every list X of valid blocks, those that merge into the    *)
(* whole address space included.                                           *)
C8_AggregateIdempotent ==
    (pc = "done" /\ entry.fn = "aggregateCIDRs" /\ entry.round > 1) => ret = entry.args

(* C9: for every s <= e the loop of rangeToCIDRs ends within 33 passes,    *)
(* having emitted at most 33 blocks, and it is neither the iteration       *)
(* ceiling nor the overflow guard that ends it.                            *)
C9_AtMost33Iterations ==
    (pc = "done" /\ entry.fn = "rangeToCIDRs") =>
        /\ rtc.iteration <= 33
        /\ Len(ret) <= 33
        /\ rtc.exit \notin {"max iterations", "overflow"}

(* C11: for every four octets in 0..255, o1 >= 128 included, ipToInt       *)
(* returns o1*2^24 + o2*2^16 + o3*2^8 + o4, a number in 0 .. 2^32 - 1, and *)
(* intToIp(ipToInt(t)) gives the same four octets back.                    *)
C11_UnsignedAndRoundTrip ==
    (pc = "done" /\ ~IpInvalid(entry.args)) =>
        /\ entry.fn = "ipToInt" =>
              /\ ret.threw = ""
              /\ ret.value = AddressOf(entry.args)
              /\ IsAddress(ret.value)
        /\ entry.fn = "intToIp(ipToInt)" =>
              /\ ret.threw = ""
              /\ ret.value = entry.args

(* A text's '/'-separated parts, its address part malformed (not four      *)
(* octets in 0..255), its prefix part not an integer in 0..32.             *)
SlashParts == entry.args.parts

AddressMalformed ==
    \/ Len(SlashParts[1]) # 4
    \/ \E i \in 1..Len(SlashParts[1]) : SlashParts[1][i] \notin 0..255

PrefixOutside == SlashParts[2] \notin 0..32

TextFails == Len(SlashParts) # 2 \/ AddressMalformed \/ PrefixOutside

(* C12 as stated: parseCIDR checks the syntax, then the address, then the  *)
(* prefix length: a text with one '/' and a malformed address fails with   *)
(* the invalid-address error even when its prefix is outside 0..32, the    *)
(* invalid-prefix-length error is raised only when the address is valid,   *)
(* and whenever a text fails no range is produced and isValidCIDR is false.*)
C12_AddressBeforePrefix ==
    pc = "done" =>
        /\ (entry.fn = "parseCIDR" /\ Len(SlashParts) = 2) =>
              /\ AddressMalformed => ret.err = "Invalid IPv4 address"
              /\ ret.err = "Invalid prefix length" => ~AddressMalformed
        /\ (entry.fn = "parseCIDR" /\ TextFails) =>
              (ret.err # "none" /\ ret = Failure(ret.err))
        /\ (entry.fn = "isValidCIDR" /\ TextFails) => ret = FALSE

(* C12 amended: parseCIDR checks the syntax, then the prefix length, then  *)
(* the address: a text with one '/' and a prefix outside 0..32 fails with  *)
(* the invalid-prefix-length error even when its address is malformed, the *)
(* invalid-address error is raised only when the prefix length is valid,   *)
(* and whenever a text fails no range is produced and isValidCIDR is       *)
(* false; a text that does not fail parses and isValidCIDR is true.        *)
C12_PrefixBeforeAddress ==
    pc = "done" =>
        /\ (entry.fn = "parseCIDR" /\ Len(SlashParts) # 2) =>
              ret.err = "Invalid CIDR notation"
        /\ (entry.fn = "parseCIDR" /\ Len(SlashParts) = 2) =>
              /\ PrefixOutside => ret.err = "Invalid prefix length"
              /\ ret.err = "Invalid IPv4 address" <=> (AddressMalformed /\ ~PrefixOutside)
        /\ entry.fn = "parseCIDR" =>
              /\ TextFails <=> ret.err # "none"
              /\ TextFails => ret = Failure(ret.err)
        /\ entry.fn = "isValidCIDR" => (ret = ~TextFails)

(* A text with one '/', a malformed address and a prefix outside 0..32 has *)
(* been parsed, and failed on its prefix length.                           *)
C12_Witness ==
    /\ pc = "done"
    /\ entry.fn = "parseCIDR"
    /\ Len(SlashParts) = 2
    /\ AddressMalformed
    /\ PrefixOutside
    /\ ret.err = "Invalid prefix length"

===========================================================================
